---- MODULE Spec2Model ----
(***************************************************************************)
(* Model of the two request handlers of the dashboard back end:            *)
(*   - the Linear issue aggregator   (GET,       src/unnamed/part_000)     *)
(*   - the GitHub PR aggregator      (onRequest, src/unnamed/part_001)     *)
(* Every await of a handler is a step boundary: an action runs the code    *)
(* from one await to the next.  The upstream APIs and the KV cache are the *)
(* environment; their answers are drawn from bounded sets.                 *)
(*                                                                         *)
(* Encodings: an optional value (null / undefined / unset) is the empty    *)
(* tuple << >>, a present value v is << v >>.  The strings that the code   *)
(* splits, trims and joins are sequences of one-character strings.         *)
(***************************************************************************)
EXTENDS Integers, Sequences, FiniteSets, TLC

\* ---------------------------------------------------------------- bounds
MaxIssues == 3      \* issues in one upstream answer
MaxEnvLen == 3      \* characters of GH_QUERY_ORGS
MaxRequests == 2    \* requests served in one behaviour

\* ------------------------------------------------------ program constants
MaxEnrich == 8          \* .slice(0, 8)
NoPriorityRank == 999   \* ?? 999 and === 0 ? 999
PerQuery == 20          \* { q, n: 20 }

\* pull requests existing upstream: the fewest with which the three buckets
\* can hold more than MaxEnrich entries
NumPRs == (MaxEnrich \div 3) + 1

None == << >>
Some(v) == << v >>
IsSome(o) == Len(o) > 0
Get(o) == o[1]

Undefined == "undefined"

\* JavaScript truthiness of a string-or-undefined configuration value
FalsyNoEmpty(v) == v = Undefined
Falsy(v) == v = Undefined \/ v = ""

\* ------------------------------------------------------------ sequences
RECURSIVE SeqMap(_, _)
SeqMap(Op(_), s) == IF s = << >> THEN << >> ELSE << Op(Head(s)) >> \o SeqMap(Op, Tail(s))

RECURSIVE SeqFilter(_, _)
SeqFilter(Test(_), s) ==
  IF s = << >> THEN << >>
  ELSE (IF Test(Head(s)) THEN << Head(s) >> ELSE << >>) \o SeqFilter(Test, Tail(s))

RECURSIVE FlatMap(_, _)
FlatMap(Op(_), s) == IF s = << >> THEN << >> ELSE Op(Head(s)) \o FlatMap(Op, Tail(s))

Slice(s, n) == SubSeq(s, 1, IF Len(s) < n THEN Len(s) ELSE n)

Range(s) == { s[i] : i \in 1..Len(s) }

SeqsUpTo(S, n) == UNION { [1..k -> S] : k \in 0..n }


\* -------------------------------------------------------------- strings
\* "a,l".split(",") : the pieces between the commas ("" gives one empty piece)
RECURSIVE Split(_)
Split(s) ==
  IF \E i \in 1..Len(s) : s[i] = ","
  THEN LET i == CHOOSE k \in 1..Len(s) : s[k] = "," /\ \A j \in 1..(k - 1) : s[j] # ","
       IN  << SubSeq(s, 1, i - 1) >> \o Split(SubSeq(s, i + 1, Len(s)))
  ELSE << s >>

RECURSIVE TrimStart(_)
TrimStart(s) == IF s # << >> /\ Head(s) = " " THEN TrimStart(Tail(s)) ELSE s

RECURSIVE TrimEnd(_)
TrimEnd(s) == IF s # << >> /\ s[Len(s)] = " " THEN TrimEnd(SubSeq(s, 1, Len(s) - 1)) ELSE s

Trim(s) == TrimEnd(TrimStart(s))

\* filter(Boolean) on strings keeps the non-empty ones
Truthy(s) == s # << >>

RECURSIVE Join(_)
Join(list) ==
  IF list = << >> THEN << >>
  ELSE IF Len(list) = 1 THEN list[1]
  ELSE list[1] \o << "," >> \o Join(Tail(list))

\* JSON.stringify / JSON.parse: a string that carries the value
JSONStringify(v) == [json |-> v]
JSONParse(s) == s.json

\* ------------------------------------------------------------- KV cache
DefaultTtl == 90

LinearKey == << "linear:recent-issues" >>

KvGet(store, key) == IF key \in DOMAIN store THEN Some(store[key].value) ELSE None

KvPut(store, key, value, ttl) ==
  [k \in DOMAIN store \cup {key} |->
     IF k = key THEN [value |-> value, expirationTtl |-> ttl] ELSE store[k]]

KvExpire(store, key) == [k \in DOMAIN store \ {key} |-> store[k]]

\* if (cached): a stored string is served, null is not
CacheHitNever(cached) == FALSE
CacheHit(cached) == IsSome(cached)

\* ------------------------------------------------------------ responses
JsonType == "application/json"
Utf8JsonType == "application/json; charset=utf-8"
TextType == "text/plain;charset=UTF-8"

Response(status, ctype, xcache, body) ==
  [status |-> status, contentType |-> ctype, xcache |-> xcache, body |-> body]

\* okJSON(data, init)
okJSON(data, xcache) == Response(200, Utf8JsonType, xcache, JSONStringify(data))

\* ------------------------------------------------- Linear issue aggregator
PriorityNames == << "Urgent", "High", "Normal", "Low" >>

PriorityName(n) ==
  IF n = 0 THEN "No priority"
  ELSE IF n \in 1..Len(PriorityNames) THEN PriorityNames[n]
  ELSE "Unknown"

\* new Date(s).getTime(), in milliseconds
GetTime(s) ==
  CASE s = "1970-01-01T00:00:01.000Z" -> 1000
    [] s = "1970-01-01T00:00:02.000Z" -> 2000
    [] s = "1970-01-01T00:00:03Z"     -> 3000
    [] s = "1970-01-01T00:00:03.000Z" -> 3000

\* result.data.issues.nodes.map(...)
ToIssue(node) ==
  [ id        |-> node.id,
    priority  |-> IF IsSome(node.priority)
                  THEN Some([value |-> Get(node.priority), name |-> PriorityName(Get(node.priority))])
                  ELSE None,
    updatedAt |-> node.updatedAt ]

SortKeyRaw(issue) ==
  IF IsSome(issue.priority) THEN Get(issue.priority).value ELSE NoPriorityRank

\* aPriority, aSort of the comparator
SortKey(issue) ==
  LET aPriority == IF IsSome(issue.priority) THEN Get(issue.priority).value ELSE NoPriorityRank
  IN  IF aPriority = 0 THEN NoPriorityRank ELSE aPriority

\* the comparator handed to issues.sort
Compare(a, b) ==
  IF SortKey(a) # SortKey(b) THEN SortKey(a) - SortKey(b)
  ELSE GetTime(b.updatedAt) - GetTime(a.updatedAt)

\* Array.prototype.sort is stable: x goes before the first element that
\* compares greater than it
Insert(x, sorted) ==
  LET later == { i \in 1..Len(sorted) : Compare(sorted[i], x) > 0 }
      at == IF later = {} THEN Len(sorted) + 1
            ELSE CHOOSE i \in later : \A j \in later : i <= j
  IN  SubSeq(sorted, 1, at - 1) \o << x >> \o SubSeq(sorted, at, Len(sorted))

RECURSIVE SortFrom(_, _)
SortFrom(done, rest) ==
  IF rest = << >> THEN done ELSE SortFrom(Insert(Head(rest), done), Tail(rest))

SortIssues(issues) == SortFrom(<< >>, issues)

\* !response.ok, result.errors, or no result.data to read
FetchThrowsIgnoringErrors(ans) == ~ans.ok \/ ~IsSome(ans.data)
FetchThrows(ans) == ~ans.ok \/ ans.errors \/ ~IsSome(ans.data)

ErrorDetails(ans) ==
  IF ~ans.ok THEN "Linear API error: status"
  ELSE IF ans.errors THEN "Linear GraphQL errors"
  ELSE "TypeError"

ErrorBody(error, details) == JSONStringify([error |-> error, details |-> details])

\* what the tracker can answer to the one GraphQL request
LinearAnswers(nodes) ==
  { [ok |-> TRUE,  errors |-> FALSE, data |-> Some(nodes)],
    [ok |-> TRUE,  errors |-> TRUE,  data |-> None],
    [ok |-> TRUE,  errors |-> TRUE,  data |-> Some(nodes)],
    [ok |-> FALSE, errors |-> FALSE, data |-> None] }


\* ------------------------------------------------- GitHub PR aggregator
Buckets == { "mine", "review", "assigned" }

\* (env.GH_QUERY_ORGS || "").split(",").map(s => s.trim()).filter(Boolean)
ScopeOrgs(raw) ==
  SeqFilter(Truthy, SeqMap(Trim, Split(IF IsSome(raw) THEN Get(raw) ELSE << >>)))

\* `overview:${scopeOrgs.join(",") || "all"}`
CacheKey(orgs) ==
  << "overview:" >> \o (IF Join(orgs) = << >> THEN << "a", "l", "l" >> ELSE Join(orgs))

\* scopeOrgs.length > 0 ? scopeOrgs : [undefined]
OrgsToQuery(orgs) == IF Len(orgs) > 0 THEN SeqMap(Some, orgs) ELSE << None >>

\* the search the code-hosting platform runs for one of buildQueries(org):
\* the open PRs of the bucket, restricted to the org when one is given, most
\* recently updated first (the lower id is the more recent), the first n
SearchNodes(world, bucket, org) ==
  LET Matches(i) == /\ bucket \in world[i].flags
                    /\ (IsSome(org) => world[i].owner = Get(org))
      RECURSIVE From(_)
      From(i) == IF i > Len(world) THEN << >>
                 ELSE (IF Matches(i) THEN << [id |-> i] @@ world[i] >> ELSE << >>) \o From(i + 1)
  IN  Slice(From(1), PerQuery)

\* the PRBasic that fetchBucket builds from a search node
ToPR(node) ==
  LET commit == node.commit
      roll == IF IsSome(commit) THEN Get(commit).statusCheckRollup ELSE None
  IN  [ id      |-> node.id,
        number  |-> node.number,
        owner   |-> node.owner,
        headSha |-> IF IsSome(commit) THEN Some(Get(commit).oid) ELSE None,
        rollup  |-> roll,
        jobs    |-> None ]

fetchBucket(world, bucket, org) == SeqMap(ToPR, SearchNodes(world, bucket, org))

\* allResults.flatMap(r => r.<bucket>)
AllOf(world, bucket, orgs) ==
  LET One(org) == fetchBucket(world, bucket, org) IN FlatMap(One, OrgsToQuery(orgs))

\* new Map(entries): a key keeps the place of its first entry and the value
\* of its last one
MapSet(m, k, v) ==
  IF \E i \in 1..Len(m) : m[i][1] = k
  THEN [i \in 1..Len(m) |-> IF m[i][1] = k THEN << k, v >> ELSE m[i]]
  ELSE Append(m, << k, v >>)

RECURSIVE NewMap(_, _)
NewMap(m, entries) ==
  IF entries = << >> THEN m
  ELSE NewMap(MapSet(m, Head(entries)[1], Head(entries)[2]), Tail(entries))

KeepAll(prs) == prs

\* Array.from(new Map(prs.map(pr => [pr.id, pr])).values())
Dedupe(prs) ==
  LET Entry(pr) == << pr.id, pr >>
      Value(e) == e[2]
  IN  SeqMap(Value, NewMap(<< >>, SeqMap(Entry, prs)))

BucketOrder == << "mine", "review", "assigned" >>

\* [...mine, ...review, ...assigned] as references into the three arrays
Concat(b) ==
  LET Refs(name) == [i \in 1..Len(b[name]) |-> [bucket |-> name, idx |-> i]]
  IN  FlatMap(Refs, BucketOrder)

RunningNoCap(b) ==
  LET IsPending(ref) == b[ref.bucket][ref.idx].rollup = Some("PENDING")
  IN  SeqFilter(IsPending, Concat(b))

\* .filter(p => p.status.rollup === "PENDING").slice(0, 8)
Running(b) ==
  LET IsPending(ref) == b[ref.bucket][ref.idx].rollup = Some("PENDING")
  IN  Slice(SeqFilter(IsPending, Concat(b)), MaxEnrich)

\* runs.find(r => r.head_sha === pr.headSha || r.pull_requests.some(x => x.number === pr.number))
FindRun(runs, pr) ==
  LET Hit(r) == Some(r.head_sha) = pr.headSha \/ pr.number \in r.pull_requests
      hits == SeqFilter(Hit, runs)
  IN  IF hits = << >> THEN None ELSE Some(Head(hits))

\* jobs.map(j => ({ name, status: j.status ?? "queued", ... }))
ToJob(j) == [name |-> j.name, status |-> IF IsSome(j.status) THEN Get(j.status) ELSE "queued"]


\* ------------------------------------------------------------------ state
VARIABLES
  env,          \* the configuration: tokens, GH_QUERY_ORGS, the GH_CACHE binding
  kv,           \* the KV namespace: key -> [value, expirationTtl]
  linearNodes,  \* upstream: the issues the tracker returns
  prWorld,      \* upstream: the pull requests, their commits and workflow runs
  clock,        \* requests started so far; new Date() of a request
  handler,      \* the handler of the current request
  pc,           \* the await the current request is at
  kvBefore,     \* kv when the current request started, less the entries expired since
  calls,        \* upstream API calls the current request has made
  passes,       \* upstream fetch passes the current request has started
  gets,         \* keys of the cache gets the current request has made
  puts,         \* keys of the cache puts the current request has made
  cached,       \* what the cache get returned, once it has
  answer,       \* GET: the answer of the tracker, once it has arrived
  result,       \* data of the current request, once built
  response,     \* the Response returned, if any
  scopeOrgs,    \* onRequest: scopeOrgs
  fetchLeft,    \* onRequest: fetchBucket calls not yet resolved
  buckets,      \* onRequest: mine, review, assigned
  running,      \* onRequest: running, as references into buckets
  attach        \* onRequest: where each attachJobs(running[i]) is

world == << env, linearNodes, prWorld >>
request == << handler, pc, kvBefore, calls, passes, gets, puts, cached, answer, result, response >>
overview == << scopeOrgs, fetchLeft, buckets, running, attach >>
vars == << world, kv, clock, request, overview >>

NoBuckets == [mine |-> << >>, review |-> << >>, assigned |-> << >>]

Idle == pc \in { "idle", "done", "threw" }

\* return new Response(...)
Return(r) == response' = Some(r) /\ pc' = "done"

\* an exception leaves the handler
Throw == response' = None /\ pc' = "threw"

Begin(h) ==
  /\ Idle
  /\ clock < MaxRequests
  /\ clock' = clock + 1
  /\ handler' = h
  /\ kvBefore' = kv
  /\ result' = None
  /\ cached' = None
  /\ answer' = None
  /\ buckets' = NoBuckets /\ running' = << >> /\ attach' = << >>
  /\ UNCHANGED << world, kv >>

\* ---------------------------------------------------------------- GET
\* fetch("https://api.linear.app/graphql", ...) is called
LinearFetch == calls' = calls + 1 /\ passes' = passes + 1 /\ pc' = "linear:fetch"

\* lines 34-51: the token check, then the cache get or the fetch
LinearStart ==
  /\ Begin("linear")
  /\ scopeOrgs' = << >> /\ fetchLeft' = 0
  /\ puts' = << >>
  /\ IF Falsy(env.LINEAR_TOKEN)
     THEN /\ Return(Response(500, JsonType, "", JSONStringify([error |-> "Missing LINEAR_TOKEN"])))
          /\ calls' = 0 /\ passes' = 0 /\ gets' = << >>
     ELSE /\ response' = None
          /\ IF env.GH_CACHE
             THEN gets' = << LinearKey >> /\ calls' = 0 /\ passes' = 0 /\ pc' = "linear:cacheGet"
             ELSE gets' = << >> /\ calls' = 1 /\ passes' = 1 /\ pc' = "linear:fetch"

\* lines 51-60 and 116: GH_CACHE.get resolves
LinearCacheGet ==
  /\ pc = "linear:cacheGet"
  /\ cached' = Some(KvGet(kv, LinearKey))
  /\ IF CacheHit(KvGet(kv, LinearKey))
     THEN /\ Return(Response(200, JsonType, "HIT", Get(KvGet(kv, LinearKey))))
          /\ UNCHANGED << calls, passes >>
     ELSE /\ response' = None
          /\ LinearFetch
  /\ UNCHANGED << world, kv, clock, handler, kvBefore, gets, puts, answer, result, overview >>

\* line 51: GH_CACHE.get rejects, outside the try block
LinearCacheGetFail ==
  /\ pc = "linear:cacheGet"
  /\ Throw
  /\ UNCHANGED << world, kv, clock, handler, kvBefore, calls, passes, gets, puts, cached, answer, result, overview >>

Failed(details) ==
  Return(Response(500, JsonType, "", ErrorBody("Failed to fetch Linear issues", details)))

\* lines 128-203: the answer arrives; map, sort, then the cache put or the response
LinearFetchDone ==
  /\ pc = "linear:fetch"
  /\ \E ans \in LinearAnswers(linearNodes) :
       /\ answer' = Some(ans)
       /\ IF FetchThrows(ans)
          THEN /\ Failed(ErrorDetails(ans))
               /\ UNCHANGED << puts, result >>
          ELSE LET issues == SortIssues(SeqMap(ToIssue, Get(ans.data)))
                   data == [generatedAt |-> clock, issues |-> issues]
               IN  /\ result' = Some(data)
                   /\ IF env.GH_CACHE
                      THEN /\ puts' = Append(puts, LinearKey)
                           /\ response' = None
                           /\ pc' = "linear:cachePut"
                      ELSE /\ puts' = puts
                           /\ Return(Response(200, JsonType, "MISS", JSONStringify(data)))
  /\ UNCHANGED << world, kv, clock, handler, kvBefore, calls, passes, gets, cached, overview >>

\* line 116: fetch rejects (network failure); caught at line 204
LinearFetchReject ==
  /\ pc = "linear:fetch"
  /\ Failed("fetch failed")
  /\ UNCHANGED << world, kv, clock, handler, kvBefore, calls, passes, gets, puts, cached, answer, result, overview >>

\* lines 195-203: GH_CACHE.put resolves
LinearPutDone ==
  /\ pc = "linear:cachePut"
  /\ kv' = KvPut(kv, LinearKey, JSONStringify(Get(result)), DefaultTtl)
  /\ Return(Response(200, JsonType, "MISS", JSONStringify(Get(result))))
  /\ UNCHANGED << world, clock, handler, kvBefore, calls, passes, gets, puts, cached, answer, result, overview >>

\* line 195: GH_CACHE.put rejects; caught at line 204
LinearPutFail ==
  /\ pc = "linear:cachePut"
  /\ Failed("KV put failed")
  /\ UNCHANGED << world, kv, clock, handler, kvBefore, calls, passes, gets, puts, cached, answer, result, overview >>


\* ---------------------------------------------------------- onRequest
\* lines 154-161: every fetchBucket of every scope is called
StartFetch(orgs) ==
  /\ fetchLeft' = 3 * Len(OrgsToQuery(orgs))
  /\ calls' = calls + 3 * Len(OrgsToQuery(orgs))
  /\ passes' = passes + 1
  /\ pc' = "overview:fetch"

\* lines 195-197: build data, then the cache put or the response
Finish(b) ==
  LET data == [generatedAt |-> clock, scopeOrgs |-> scopeOrgs, buckets |-> b]
  IN  /\ result' = Some(data)
      /\ IF env.GH_CACHE
         THEN puts' = Append(puts, CacheKey(scopeOrgs)) /\ response' = None /\ pc' = "overview:cachePut"
         ELSE puts' = puts /\ Return(okJSON(data, "MISS"))

\* lines 63-71: the token check, scopeOrgs, then the cache get or the searches
OverviewStart ==
  /\ Begin("overview")
  /\ puts' = << >>
  /\ IF Falsy(env.GITHUB_TOKEN)
     THEN /\ Return(Response(500, TextType, "", [text |-> "Missing GITHUB_TOKEN"]))
          /\ scopeOrgs' = << >> /\ fetchLeft' = 0
          /\ calls' = 0 /\ passes' = 0 /\ gets' = << >>
     ELSE /\ response' = None
          /\ scopeOrgs' = ScopeOrgs(env.GH_QUERY_ORGS)
          /\ IF env.GH_CACHE
             THEN /\ gets' = << CacheKey(scopeOrgs') >>
                  /\ calls' = 0 /\ passes' = 0 /\ fetchLeft' = 0
                  /\ pc' = "overview:cacheGet"
             ELSE /\ gets' = << >>
                  /\ calls' = 3 * Len(OrgsToQuery(scopeOrgs'))
                  /\ passes' = 1
                  /\ fetchLeft' = 3 * Len(OrgsToQuery(scopeOrgs'))
                  /\ pc' = "overview:fetch"

\* lines 71-72 and 154: GH_CACHE.get resolves
OverviewCacheGet ==
  /\ pc = "overview:cacheGet"
  /\ cached' = Some(KvGet(kv, CacheKey(scopeOrgs)))
  /\ IF CacheHit(KvGet(kv, CacheKey(scopeOrgs)))
     THEN /\ Return(okJSON(JSONParse(Get(KvGet(kv, CacheKey(scopeOrgs)))), "HIT"))
          /\ UNCHANGED << calls, passes, fetchLeft >>
     ELSE /\ response' = None
          /\ StartFetch(scopeOrgs)
  /\ UNCHANGED << world, kv, clock, handler, kvBefore, gets, puts, answer, result,
                  scopeOrgs, buckets, running, attach >>

\* line 71: GH_CACHE.get rejects
OverviewCacheGetFail ==
  /\ pc = "overview:cacheGet"
  /\ Throw
  /\ UNCHANGED << world, kv, clock, handler, kvBefore, calls, passes, gets, puts, cached, answer,
                  result, overview >>

\* line 122: one octokit.graphql resolves while others are outstanding
FetchBucketDone ==
  /\ pc = "overview:fetch"
  /\ fetchLeft > 1
  /\ fetchLeft' = fetchLeft - 1
  /\ UNCHANGED << world, kv, clock, request, scopeOrgs, buckets, running, attach >>

\* line 122: one octokit.graphql rejects, and with it both Promise.all
FetchBucketFail ==
  /\ pc = "overview:fetch"
  /\ Throw
  /\ UNCHANGED << world, kv, clock, handler, kvBefore, calls, passes, gets, puts, cached, answer,
                  result, overview >>

\* line 174, 176: attachJobs up to its first await
Started(pr) == IF IsSome(pr.headSha) THEN "runs" ELSE "done"

AllDone(a) == \A i \in 1..Len(a) : a[i] = "done"

\* lines 162-193: the last fetchBucket resolves; merge, select, call attachJobs
FetchAllDone ==
  /\ pc = "overview:fetch"
  /\ fetchLeft = 1
  /\ fetchLeft' = 0
  /\ LET b == [name \in Buckets |-> Dedupe(AllOf(prWorld, name, scopeOrgs))]
         r == Running(b)
         a == [i \in 1..Len(r) |-> Started(b[r[i].bucket][r[i].idx])]
     IN  /\ buckets' = b
         /\ running' = r
         /\ attach' = a
         /\ calls' = calls + Cardinality({ i \in 1..Len(a) : a[i] = "runs" })
         /\ IF AllDone(a)
            THEN Finish(b)
            ELSE pc' = "overview:enrich" /\ UNCHANGED << puts, result, response >>
  /\ UNCHANGED << world, kv, clock, handler, kvBefore, passes, gets, cached, answer, scopeOrgs >>

Candidate(i) == buckets[running[i].bucket][running[i].idx]

\* lines 176-186: the workflow runs of a candidate arrive
RunsDone(i) ==
  /\ pc = "overview:enrich"
  /\ attach[i] = "runs"
  /\ LET run == FindRun(prWorld[Candidate(i).id].runs, Candidate(i))
         a == [attach EXCEPT ![i] = IF IsSome(run) THEN "jobs" ELSE "done"]
     IN  /\ attach' = a
         /\ calls' = IF IsSome(run) THEN calls + 1 ELSE calls
         /\ IF AllDone(a)
            THEN Finish(buckets)
            ELSE UNCHANGED << pc, puts, result, response >>
  /\ UNCHANGED << world, kv, clock, handler, kvBefore, passes, gets, cached, answer,
                  scopeOrgs, fetchLeft, buckets, running >>

\* lines 184-190: the jobs of the run arrive and are attached to the candidate
JobsDone(i) ==
  /\ pc = "overview:enrich"
  /\ attach[i] = "jobs"
  /\ LET run == Get(FindRun(prWorld[Candidate(i).id].runs, Candidate(i)))
         jobs == SeqMap(ToJob, run.jobs)
         b == [buckets EXCEPT ![running[i].bucket][running[i].idx].jobs = Some(jobs)]
         a == [attach EXCEPT ![i] = "done"]
     IN  /\ buckets' = b
         /\ attach' = a
         /\ IF AllDone(a)
            THEN Finish(b)
            ELSE UNCHANGED << pc, puts, result, response >>
  /\ UNCHANGED << world, kv, clock, handler, kvBefore, calls, passes, gets, cached, answer,
                  scopeOrgs, fetchLeft, running >>

\* lines 176, 184, 193: a paginate call rejects, and with it Promise.all
LookupFail(i) ==
  /\ pc = "overview:enrich"
  /\ attach[i] \in { "runs", "jobs" }
  /\ attach' = [attach EXCEPT ![i] = "failed"]
  /\ Throw
  /\ UNCHANGED << world, kv, clock, handler, kvBefore, calls, passes, gets, puts, cached, answer,
                  result, scopeOrgs, fetchLeft, buckets, running >>

\* lines 196-197: GH_CACHE.put resolves
OverviewPutDone ==
  /\ pc = "overview:cachePut"
  /\ kv' = KvPut(kv, CacheKey(scopeOrgs), JSONStringify(Get(result)), DefaultTtl)
  /\ Return(okJSON(Get(result), "MISS"))
  /\ UNCHANGED << world, clock, handler, kvBefore, calls, passes, gets, puts, cached, answer,
                  result, overview >>

\* line 196: GH_CACHE.put rejects
OverviewPutFail ==
  /\ pc = "overview:cachePut"
  /\ Throw
  /\ UNCHANGED << world, kv, clock, handler, kvBefore, calls, passes, gets, puts, cached, answer,
                  result, overview >>

\* ------------------------------------------------------------ environment
\* a cache entry reaches its TTL
Expire ==
  /\ \E key \in DOMAIN kv : kv' = KvExpire(kv, key) /\ kvBefore' = KvExpire(kvBefore, key)
  /\ UNCHANGED << world, clock, handler, pc, calls, passes, gets, puts, cached, answer,
                  result, response, overview >>

\* the deployment is given another GH_QUERY_ORGS between two requests (before
\* anything is stored, that is the same as starting with it)
Redeploy(orgs) ==
  /\ Idle
  /\ clock < MaxRequests
  /\ DOMAIN kv # {}
  /\ env.GH_QUERY_ORGS # orgs
  /\ env' = [env EXCEPT !.GH_QUERY_ORGS = orgs]
  /\ UNCHANGED << linearNodes, prWorld, kv, clock, request, overview >>


\* ------------------------------------------------------- initial states
Tokens == { Undefined, "", "secret" }

OrgA == << "a" >>
OrgL == << "l" >>

Sha(i) == 1000 + i

MatchingRun(i) ==
  [ head_sha |-> Sha(i), pull_requests |-> {},
    jobs |-> << [name |-> "build", status |-> Some("completed")],
                [name |-> "test", status |-> None] >> ]

PullRequest(i, owner, flags, rollup, runs) ==
  [ number |-> 10 + i, owner |-> owner, flags |-> flags,
    commit |-> Some([oid |-> Sha(i), statusCheckRollup |-> rollup]),
    runs |-> runs ]

\* one pending PR with a matching run in two buckets, one pending PR whose
\* run is found by PR number, one PR without commits
BasePRs ==
  [ i \in 1..NumPRs |->
      IF i = 1 THEN PullRequest(1, OrgA, { "mine", "review" }, Some("PENDING"), << MatchingRun(1) >>)
      ELSE IF i = 2
      THEN PullRequest(2, OrgL, { "assigned" }, Some("PENDING"),
                       << [head_sha |-> 0, pull_requests |-> { 12 }, jobs |-> << >>] >>)
      ELSE [ number |-> 10 + i, owner |-> OrgA, flags |-> { "mine" }, commit |-> None,
             runs |-> << >> ] ]

Priorities == { None, Some(0), Some(1), Some(2) }

Timestamps == { "1970-01-01T00:00:02.000Z", "1970-01-01T00:00:03Z", "1970-01-01T00:00:03.000Z" }

NodeLists(n) ==
  UNION { { [i \in 1..k |-> [id |-> i, priority |-> f[i][1], updatedAt |-> f[i][2]]] :
            f \in [1..k -> Priorities \X Timestamps] } : k \in 0..n }

BaseNodes ==
  << [id |-> 1, priority |-> Some(0), updatedAt |-> "1970-01-01T00:00:03Z"],
     [id |-> 2, priority |-> Some(2), updatedAt |-> "1970-01-01T00:00:02.000Z"] >>

FullEnv(orgs, cache) ==
  [LINEAR_TOKEN |-> "secret", GITHUB_TOKEN |-> "secret", GH_QUERY_ORGS |-> orgs, GH_CACHE |-> cache]

InitRequest ==
  /\ clock = 0
  /\ handler = "none"
  /\ pc = "idle"
  /\ kvBefore = kv
  /\ calls = 0 /\ passes = 0
  /\ gets = << >> /\ puts = << >>
  /\ cached = None /\ answer = None /\ result = None /\ response = None
  /\ scopeOrgs = << >> /\ fetchLeft = 0
  /\ buckets = NoBuckets /\ running = << >> /\ attach = << >>

\* what an earlier deployment, which had both tokens, left in the cache
StoredBefore(orgs) ==
  KvPut(KvPut(<< >>, LinearKey, JSONStringify([generatedAt |-> 0, issues |-> << >>]), DefaultTtl),
        CacheKey(ScopeOrgs(orgs)),
        JSONStringify([generatedAt |-> 0, scopeOrgs |-> ScopeOrgs(orgs), buckets |-> NoBuckets]),
        DefaultTtl)

\* any configuration of tokens and cache binding, an empty cache or one filled
\* earlier, fixed upstream data
Init ==
  /\ env \in [ LINEAR_TOKEN : Tokens, GITHUB_TOKEN : Tokens,
               GH_QUERY_ORGS : { None, Some(<< "a", ",", "l" >>) }, GH_CACHE : BOOLEAN ]
  /\ kv \in { << >>, StoredBefore(env.GH_QUERY_ORGS) }
  /\ linearNodes = BaseNodes
  /\ prWorld = BasePRs
  /\ InitRequest

NextLinear ==
  \/ LinearStart
  \/ LinearCacheGet
  \/ LinearCacheGetFail
  \/ LinearFetchDone
  \/ LinearFetchReject
  \/ LinearPutDone
  \/ LinearPutFail

NextSearch ==
  \/ OverviewStart
  \/ FetchBucketDone
  \/ FetchBucketFail
  \/ FetchAllDone
  \/ \E i \in DOMAIN attach : RunsDone(i)
  \/ \E i \in DOMAIN attach : JobsDone(i)
  \/ \E i \in DOMAIN attach : LookupFail(i)

NextOverview ==
  \/ NextSearch
  \/ OverviewCacheGet
  \/ OverviewCacheGetFail
  \/ OverviewPutDone
  \/ OverviewPutFail

Next == NextLinear \/ NextOverview \/ Expire

Spec == Init /\ [][Next]_vars


\* an upstream answer of up to MaxIssues issues, with or without the cache
InitSort ==
  /\ env \in { FullEnv(None, c) : c \in BOOLEAN }
  /\ linearNodes \in NodeLists(MaxIssues)
  /\ prWorld = BasePRs
  /\ kv = << >>
  /\ InitRequest

SpecSort == InitSort /\ [][NextLinear \/ Expire]_vars

\* the raw values GH_QUERY_ORGS can take
Alphabet == { "a", "l", ",", " " }

EnvValues == { None } \cup { Some(raw) : raw \in SeqsUpTo(Alphabet, MaxEnvLen) }

\* scope lists with one org, the same org twice, two orgs in both orders, none
DedupScopes ==
  { None, Some(<< "a" >>), Some(<< "a", ",", "a" >>), Some(<< "a", ",", "l" >>),
    Some(<< "l", ",", " ", "a" >>) }

\* the org of each PR: the odd ones in org a, the even ones in org l
OwnerOf(i) == IF i % 2 = 1 THEN OrgA ELSE OrgL

\* every PR in any of the buckets; PR 1 is pending and has a run
InitDedup ==
  /\ env \in { FullEnv(orgs, FALSE) : orgs \in DedupScopes }
  /\ linearNodes = BaseNodes
  /\ prWorld \in { [i \in 1..NumPRs |->
                     IF i = 1
                     THEN PullRequest(1, OwnerOf(1), flags[1], Some("PENDING"), << MatchingRun(1) >>)
                     ELSE PullRequest(i, OwnerOf(i), flags[i], Some("SUCCESS"), << >>)] :
                   flags \in [1..NumPRs -> SUBSET Buckets] }
  /\ kv = << >>
  /\ InitRequest

SpecDedup == InitDedup /\ [][NextSearch]_vars

\* every PR in no bucket, one, two or all three, and pending or green; the
\* odd PRs have a workflow run, the even ones have none
EnrichFlags == { {}, { "mine" }, { "review", "assigned" }, Buckets }

RunsOf(i) == IF i % 2 = 1 THEN << MatchingRun(i) >> ELSE << >>

InitEnrich ==
  /\ env = FullEnv(None, FALSE)
  /\ linearNodes = BaseNodes
  /\ prWorld \in { [i \in 1..NumPRs |->
                     PullRequest(i, OrgA, w[i][1], Some(w[i][2]), RunsOf(i))] :
                   w \in [1..NumPRs -> EnrichFlags \X { "PENDING", "SUCCESS" }] }
  /\ kv = << >>
  /\ InitRequest

SpecEnrich == InitEnrich /\ [][NextSearch]_vars

\* any GH_QUERY_ORGS, changed between requests, over one cache
InitKey ==
  /\ env \in { FullEnv(orgs, TRUE) : orgs \in EnvValues }
  /\ linearNodes = BaseNodes
  /\ prWorld = BasePRs
  /\ kv = << >>
  /\ InitRequest

NextKey ==
  \/ NextOverview
  \/ Expire
  \/ \E orgs \in EnvValues : Redeploy(orgs)

SpecKey == InitKey /\ [][NextKey]_vars

\* ======================================================== properties
Ended == pc \in { "done", "threw" }

RequestKey == IF handler = "linear" THEN LinearKey ELSE CacheKey(scopeOrgs)

NoToken ==
  \/ handler = "linear" /\ env.LINEAR_TOKEN \in { Undefined, "" }
  \/ handler = "overview" /\ env.GITHUB_TOKEN \in { Undefined, "" }

\* the request got an answer from the cache
Looked == handler # "none" /\ IsSome(cached)
FoundEntry == Looked /\ IsSome(Get(cached))

\* the response of a cache hit: the stored payload, tagged HIT
ServedFromCache ==
  /\ pc = "done"
  /\ IsSome(response)
  /\ Get(response).status = 200
  /\ Get(response).xcache = "HIT"
  /\ Get(response).body = Get(Get(cached))

\* C1 as stated, for the requests that return a response: with a cache binding,
\* an unexpired entry for the request's key means no upstream call and the
\* cached payload returned as a HIT; an expired or absent entry means one
\* upstream fetch pass followed by exactly one cache put under that key.
C1_OneFetchAndStoreCycle ==
  (pc = "done" /\ Looked) =>
     IF FoundEntry
     THEN calls = 0 /\ ServedFromCache
     ELSE passes = 1 /\ puts = << RequestKey >>

\* C1 amended: with a cache binding, an unexpired entry means no upstream call,
\* no cache put and the cached payload returned as a HIT; an expired or absent
\* entry means exactly one upstream fetch pass, followed by exactly one cache
\* put under that key when the pass (with the job lookups of the PR
\* Aggregator) completes, and by no cache put when it fails.
C1_OneFetchPassStoreOnSuccess ==
  (Ended /\ Looked) =>
     IF FoundEntry
     THEN calls = 0 /\ passes = 0 /\ puts = << >> /\ ServedFromCache
     ELSE /\ passes = 1
          /\ calls >= 1
          /\ gets = << RequestKey >>
          /\ IF IsSome(result) THEN puts = << RequestKey >> ELSE puts = << >>

\* a request served from the entry that an earlier request fetched and stored
C1_Witness ==
  /\ Ended /\ FoundEntry
  /\ clock > 1
  /\ calls = 0
  /\ JSONParse(Get(response).body).generatedAt < clock

\* C2: a request without its token gets a 500 response, and has made no upstream
\* call, no cache get and no cache put
C2_MissingTokenNoNetwork ==
  (handler # "none" /\ NoToken) =>
     /\ pc = "done"
     /\ IsSome(response)
     /\ Get(response).status = 500
     /\ calls = 0 /\ passes = 0
     /\ gets = << >> /\ puts = << >>
     /\ kv = kvBefore

\* the token is the empty string and the cache holds an entry for the request
C2_Witness ==
  /\ handler = "overview" /\ NoToken
  /\ env.GITHUB_TOKEN = ""
  /\ env.GH_CACHE
  /\ pc = "done"
  /\ CacheKey(ScopeOrgs(env.GH_QUERY_ORGS)) \in DOMAIN kv

\* C7: no request ends with an exception escaping the handler; every ended
\* request has a response
C7_AlwaysResponds == Ended => (pc = "done" /\ IsSome(response))

\* the tracker answered with a non-success status or with GraphQL errors
UpstreamError == handler = "linear" /\ IsSome(answer) /\ (~Get(answer).ok \/ Get(answer).errors)

\* C9: when the tracker answers a cache miss with a non-success status or with
\* GraphQL errors, the response is a 500 with an error message and the failure
\* detail and without issues, and the request writes nothing to the cache
C9_UpstreamErrorIs500 ==
  UpstreamError =>
     /\ pc = "done"
     /\ IsSome(response)
     /\ Get(response).status = 500
     /\ DOMAIN JSONParse(Get(response).body) = { "error", "details" }
     /\ JSONParse(Get(response).body).details \in { "Linear API error: status", "Linear GraphQL errors" }
     /\ puts = << >>
     /\ kv = kvBefore

\* the tracker sent errors together with partial data; nothing was stored
C9_Witness ==
  /\ UpstreamError
  /\ Get(answer).errors /\ IsSome(Get(answer).data)
  /\ env.GH_CACHE
  /\ pc = "done"
  /\ LinearKey \notin DOMAIN kv


\* the rank the sort policy gives a priority of the tracker
Rank(node) ==
  IF node.priority = None \/ node.priority = Some(0) THEN 999 ELSE Get(node.priority)

MissIssues == JSONParse(Get(response).body).issues

LinearMiss ==
  /\ handler = "linear" /\ pc = "done"
  /\ IsSome(response)
  /\ Get(response).xcache = "MISS"

\* C3: the issues of a cache-miss response are a permutation of the upstream
\* list in which the rank (999 for priority 0 or absent, n for priority n >= 1)
\* never decreases and, within a rank, updatedAt never increases
C3_SortedByRankThenRecency ==
  LinearMiss =>
     /\ Len(MissIssues) = Len(linearNodes)
     /\ { MissIssues[i].id : i \in 1..Len(MissIssues) } = { linearNodes[i].id : i \in 1..Len(linearNodes) }
     /\ \A i \in 1..Len(MissIssues) :
          MissIssues[i].updatedAt = linearNodes[MissIssues[i].id].updatedAt
     /\ \A i, j \in 1..Len(MissIssues) :
          i < j =>
            LET a == linearNodes[MissIssues[i].id]
                b == linearNodes[MissIssues[j].id]
            IN  /\ Rank(a) <= Rank(b)
                /\ Rank(a) = Rank(b) => GetTime(a.updatedAt) >= GetTime(b.updatedAt)

\* upstream sent a priority-0 issue first, then an issue without priority
\* updated later, then a High issue: the response has them in the order 3, 2, 1
C3_Witness ==
  /\ LinearMiss
  /\ Len(linearNodes) = 3
  /\ linearNodes[1].priority = Some(0)
  /\ linearNodes[2].priority = None
  /\ linearNodes[3].priority = Some(2)
  /\ GetTime(linearNodes[1].updatedAt) < GetTime(linearNodes[2].updatedAt)
  /\ << MissIssues[1].id, MissIssues[2].id, MissIssues[3].id >> = << 3, 2, 1 >>


\* the three searches have all resolved and the buckets are merged
Merged == handler = "overview" /\ passes = 1 /\ fetchLeft = 0

Ids(prs) == { prs[i].id : i \in 1..Len(prs) }

\* the ids that the search of at least one scope returned for a bucket
Returned(name) ==
  UNION { { node.id : node \in Range(SearchNodes(prWorld, name, org)) } :
          org \in Range(OrgsToQuery(scopeOrgs)) }

\* C4: each merged bucket lists every PR id that some scope returned for it
\* exactly once, and no other id, whatever the other buckets list
C4_OneEntryPerReturnedId ==
  Merged =>
    \A name \in Buckets :
       /\ Ids(buckets[name]) = Returned(name)
       /\ \A i, j \in 1..Len(buckets[name]) :
             buckets[name][i].id = buckets[name][j].id => i = j

\* org a is searched twice, a PR of org a comes back from both scopes in mine
\* and in review, and each of the two buckets lists it once
C4_Witness ==
  /\ Merged
  /\ scopeOrgs = << OrgA, OrgA >>
  /\ 1 \in Returned("mine") \cap Returned("review")
  /\ Len(AllOf(prWorld, "mine", scopeOrgs)) = 2 * Len(buckets.mine)
  /\ Len(buckets.mine) = 2
  /\ Len(buckets.review) = 1

\* the entries of [...mine, ...review, ...assigned], and those with rollup PENDING
Entries == buckets.mine \o buckets.review \o buckets.assigned

PendingAt == { k \in 1..Len(Entries) : Entries[k].rollup = Some("PENDING") }

\* where a reference of running is in Entries
Place(ref) ==
  ref.idx + (CASE ref.bucket = "mine" -> 0
               [] ref.bucket = "review" -> Len(buckets.mine)
               [] ref.bucket = "assigned" -> Len(buckets.mine) + Len(buckets.review))

\* C5: at most 8 PRs get an attachJobs call, each has rollup PENDING, and they
\* are the first 8 PENDING entries of mine, review, assigned in that order
C5_AtMostEightPendingFirst ==
  Merged =>
    /\ Len(running) <= 8
    /\ DOMAIN attach = DOMAIN running
    /\ \A i \in 1..Len(running) : Place(running[i]) \in PendingAt
    /\ \A i \in 1..Len(running) :
         Cardinality({ k \in PendingAt : k <= Place(running[i]) }) = i
    /\ Len(running) < 8 => Len(running) = Cardinality(PendingAt)

\* nine PENDING entries, eight of them selected
C5_Witness ==
  /\ Merged
  /\ Cardinality(PendingAt) = 9
  /\ Len(Entries) = 9
  /\ Len(attach) = 8

\* C6: a cache hit serves a payload that was built for the scope list of the
\* request it is served to
C6_HitIsOfOwnScope ==
  (handler = "overview" /\ pc = "done" /\ FoundEntry) =>
     JSONParse(Get(response).body).scopeOrgs = scopeOrgs

\* C8: when the job lookup of one candidate fails, the request still ends with
\* a response, in which the other candidates have their lookups finished
C8_FailureIsIsolated ==
  (/\ handler = "overview" /\ Ended
   /\ \E i, j \in DOMAIN attach : i # j /\ attach[i] = "failed") =>
     /\ pc = "done"
     /\ IsSome(response)
     /\ \A j \in DOMAIN attach : attach[j] \in { "done", "failed" }

\* C10: in a cache-miss response, the copies of one PR in different buckets
\* either all have their job list or all lack it
C10_SameEnrichmentInEveryBucket ==
  (handler = "overview" /\ pc = "done" /\ IsSome(response) /\ Get(response).xcache = "MISS") =>
     LET out == JSONParse(Get(response).body).buckets
     IN  \A m, n \in Buckets :
           \A i \in 1..Len(out[m]) : \A j \in 1..Len(out[n]) :
              out[m][i].id = out[n][j].id => (IsSome(out[m][i].jobs) <=> IsSome(out[n][j].jobs))

====
